---- MODULE Spec2Model ----
(***************************************************************************)
(* A model of src/main.py: the request handlers of a FastAPI service over  *)
(* three Tortoise-ORM models (User, Product, Order) kept in SQLite.        *)
(*                                                                         *)
(* The store is three tables (id -> row).  Every handler is one action     *)
(* that reads the tables through the ORM calls the handler makes and       *)
(* leaves the HTTP exchange in `request` / `response`.                     *)
(*                                                                         *)
(* ORM calls are modelled by what Tortoise does for them:                  *)
(*   Model.get(id=..)          raises DoesNotExist when no row matches     *)
(*                             (it never returns None),                    *)
(*   Model.filter(..).delete() returns the number of rows deleted,         *)
(*   instance.save()           UPDATEs every non-key column of the row     *)
(*                             WHERE id = pk (no error on zero rows),      *)
(*   ForeignKeyField           a NOT NULL REFERENCES .. ON DELETE CASCADE  *)
(*                             column; the SQLite client runs with         *)
(*                             PRAGMA foreign_keys=ON,                     *)
(*   QuerySet.order_by(s)      a leading "-" means descending, the rest    *)
(*                             must be a field name, else FieldError,      *)
(*   .aggregate(Sum(..))       read as the SQL it names: SUM over the      *)
(*                             selected orders joined to their products,   *)
(*                             NULL when none is selected.                 *)
(* An exception no handler catches leaves FastAPI answering 500.           *)
(* Prices (floats in the source) are modelled as small naturals.           *)
(***************************************************************************)
EXTENDS Integers, Sequences, FiniteSets, TLC

VARIABLES users, products, orders, lastId, now, request, response, tasks, resource

vars == <<users, products, orders, lastId, now, request, response, tasks, resource>>

db == <<users, products, orders, lastId>>

(***************************************************************************)
(* Bounds of the model.                                                    *)
(***************************************************************************)
\* Rows each table may ever be given (the autoincrement key stops here).
MaxId == 2
\* Ticks of the wall clock.
MaxClock == 1
\* Rows a run ever inserts, over the three tables.
MaxRows == 4
\* Handlers that may be in flight at once (SpecConc).
MaxTasks == 2

Ids == 1..MaxId

(***************************************************************************)
(* Input values.                                                           *)
(***************************************************************************)
UserCreateInputs ==
    { [first_name |-> "Ann", last_name |-> "Lee", email |-> "ann@x", password |-> "pw1"] }

\* UserUpdate bodies: the fields that were set in the request (exclude_unset).
UserPatches ==
    { [email |-> "ann@y"],
      [first_name |-> "Bob", last_name |-> "Ray"] }

Prices == {1, 2}

ProductCreateInputs ==
    { [name |-> "pen", description |-> "blue", price |-> p] : p \in Prices }

ProductPatches ==
    { [price |-> 3],
      [name |-> "ink", description |-> "red"] }

OrderCreateInputs ==
    { [user_id |-> u, product_id |-> p, status |-> "pending"] : u \in Ids, p \in Ids }

OrderPatches ==
    { [status |-> "paid"] }
    \cup { [user_id |-> u] : u \in Ids }
    \cup { [product_id |-> p, status |-> "pending"] : p \in Ids }

\* min_price / max_price: absent (<<>>) or a value > 0 (Query(None, gt=0)).
PriceBounds == { <<>>, <<2>> }

\* sort_by as the characters the client sent, cut into tokens: absent, a
\* field name, a "-" followed by a field name, a name that is no field.
SortInputs == { <<>>, <<"price">>, <<"name">>, <<"-", "price">>, <<"bogus">> }

(***************************************************************************)
(* The columns of Product, the model that a query may be ordered by.       *)
(***************************************************************************)
ProductFields == {"id", "name", "description", "price"}

(***************************************************************************)
(* HTTP responses.                                                         *)
(***************************************************************************)
Ok(body) == [status |-> 200, detail |-> "", exc |-> "", body |-> body]

HTTPException(code, detail) ==
    [status |-> code, detail |-> detail, exc |-> "", body |-> <<>>]

\* An exception that leaves the handler: FastAPI answers 500.
Unhandled(exc) ==
    [status |-> 500, detail |-> "Internal Server Error", exc |-> exc, body |-> <<>>]

Req(op, id, data) == [op |-> op, id |-> id, data |-> data]

(***************************************************************************)
(* The ORM calls the handlers make.                                        *)
(***************************************************************************)
\* Model.get(id=..): one row, or DoesNotExist.  obj is <<row>>; it is never
\* the empty (falsy) value.
Get(table, id) ==
    IF id \in DOMAIN table
    THEN [exc |-> "", obj |-> <<table[id]>>]
    ELSE [exc |-> "DoesNotExist", obj |-> <<>>]

\* Python's `not obj`.
Falsy(obj) == obj = <<>>

\* NextId handing the last key out again.
NextIdReused(last) == IF last = 0 THEN 1 ELSE last

\* The key an INSERT is given: INTEGER PRIMARY KEY AUTOINCREMENT.
NextId(last) == last + 1

\* SetAttrs over data.dict() without exclude_unset: the CharFields that were
\* not sent are set to None.
SetAttrsUnsetToo(obj, data) ==
    [f \in DOMAIN obj |->
        IF f \in DOMAIN data THEN data[f]
        ELSE IF f \in {"id", "user_id", "product_id", "price", "order_date"} THEN obj[f]
        ELSE "None"]

\* `for field, value in data.dict(exclude_unset=True).items(): setattr(..)`
SetAttrs(obj, data) ==
    [f \in DOMAIN obj |-> IF f \in DOMAIN data THEN data[f] ELSE obj[f]]

\* The rows of `table` whose key is in S.
Restrict(table, S) == [i \in S |-> table[i]]

\* instance.save() of a fetched row: UPDATE .. SET <every column> WHERE id = pk.
Save(table, obj) ==
    IF obj.id \in DOMAIN table THEN [table EXCEPT ![obj.id] = obj] ELSE table

\* ForeignKeysOk with the constraints not enforced.
ForeignKeysOff(us, ps, order) == TRUE

\* The REFERENCES constraints of Order.user and Order.product.
ForeignKeysOk(us, ps, order) ==
    order.user_id \in DOMAIN us /\ order.product_id \in DOMAIN ps

\* ON DELETE CASCADE: the orders left when row `id` of the table that
\* column `fk` references is deleted.
Cascade(os, fk, id) == Restrict(os, {i \in DOMAIN os : os[i][fk] # id})

\* AutoNowAdd as auto_now=True: stamped on every save.
AutoNow(old, clock) == clock

\* order_date = DatetimeField(auto_now_add=True): stamped when the value is
\* missing (the INSERT), kept on every later save.
AutoNowAdd(old, clock) == IF old = <<>> THEN clock ELSE old[1]

\* The ids of S in ascending order (a table scan in rowid order).
RECURSIVE InIdOrder(_)
InIdOrder(S) ==
    IF S = {} THEN <<>>
    ELSE LET m == CHOOSE x \in S : \A y \in S : x <= y
         IN  <<m>> \o InIdOrder(S \ {m})

\* Model.all() / Model.filter(..): the rows with the given ids.
Rows(table, S) == [k \in 1..Cardinality(S) |-> table[InIdOrder(S)[k]]]

Perms(S) ==
    { s \in [1..Cardinality(S) -> S] : \A i, j \in 1..Cardinality(S) : s[i] = s[j] => i = j }

\* Collation of the strings the model stores.
StrRank(v) ==
    CASE v = "blue" -> 1 [] v = "ink" -> 2 [] v = "pen" -> 3 [] v = "red" -> 4 [] OTHER -> 0

SortKey(row, f) == IF f \in {"id", "price"} THEN row[f] ELSE StrRank(row[f])

\* price__gte / price__lte (lines 208-211).
PriceFilter(ps, min_price, max_price) ==
    { i \in DOMAIN ps :
        /\ (min_price # <<>> => ps[i].price >= min_price[1])
        /\ (max_price # <<>> => ps[i].price <= max_price[1]) }

\* f"{sort_by}{' DESC' if desc else ''}"
OrderingString(sort_by, desc) == sort_by \o (IF desc THEN <<" DESC">> ELSE <<>>)

\* QuerySet.order_by(ordering): <<field tokens, descending>>.
ResolveOrdering(ordering) ==
    IF ordering # <<>> /\ Head(ordering) = "-"
    THEN [field |-> Tail(ordering), descending |-> TRUE]
    ELSE [field |-> ordering, descending |-> FALSE]

KnownField(field) == Len(field) = 1 /\ field[1] \in ProductFields

\* The orders in which ORDER BY may return the rows S (ties in any order).
Ordered(ps, S, f, descending) ==
    { s \in Perms(S) :
        \A k \in 1..(Cardinality(S) - 1) :
            IF descending
            THEN SortKey(ps[s[k]], f) >= SortKey(ps[s[k+1]], f)
            ELSE SortKey(ps[s[k]], f) <= SortKey(ps[s[k+1]], f) }

\* SUM(product.price) over the orders S joined to their products: NULL
\* (<<>>) when no order is selected.
RECURSIVE SumPrice(_, _, _)
SumPrice(os, ps, S) ==
    IF S = {} THEN 0
    ELSE LET o == CHOOSE x \in S : TRUE
         IN  (IF os[o].product_id \in DOMAIN ps THEN ps[os[o].product_id].price ELSE 0)
             + SumPrice(os, ps, S \ {o})

AggregateSum(os, ps, S) == IF S = {} THEN <<>> ELSE <<SumPrice(os, ps, S)>>

\* `total_amount[...] or 0`
OrZero(v) == IF v = <<>> \/ v[1] = 0 THEN 0 ELSE v[1]

OrdersOf(os, user_id) == {i \in DOMAIN os : os[i].user_id = user_id}

(***************************************************************************)
(* The state after start-up: an empty schema.                              *)
(***************************************************************************)
Init ==
    /\ users = <<>>
    /\ products = <<>>
    /\ orders = <<>>
    /\ lastId = [user |-> 0, product |-> 0, order |-> 0]
    /\ now = 0
    /\ request = Req("", 0, <<>>)
    /\ response = Ok(<<>>)
    /\ tasks = [t \in 1..MaxTasks |-> [pc |-> "idle"]]
    /\ resource \in {"users", "products", "orders"}

\* The wall clock that auto_now_add reads.
Tick ==
    /\ now < MaxClock
    /\ now' = now + 1
    /\ UNCHANGED <<db, request, response, tasks>>

(***************************************************************************)
(* Users.                                                                  *)
(***************************************************************************)
create_user(user) ==
    /\ lastId.user < MaxId
    /\ lastId.user + lastId.product + lastId.order < MaxRows
    /\ LET id == NextId(lastId.user)
           user_obj == [id |-> id, first_name |-> user.first_name,
                        last_name |-> user.last_name, email |-> user.email,
                        password |-> user.password]
       IN  /\ users' = (users @@ (id :> user_obj))
           /\ lastId' = [lastId EXCEPT !.user = id]
           /\ request' = Req("create_user", 0, user)
           /\ response' = Ok(<<user_obj>>)
    /\ UNCHANGED <<products, orders, now, tasks>>

read_user(user_id) ==
    /\ request' = Req("read_user", user_id, <<>>)
    /\ LET user == Get(users, user_id)
       IN  response' = IF user.exc # "" THEN Unhandled(user.exc)
                       ELSE IF Falsy(user.obj) THEN HTTPException(404, "User not found")
                       ELSE Ok(user.obj)
    /\ UNCHANGED <<db, now, tasks>>

update_user(user_id, user) ==
    /\ request' = Req("update_user", user_id, user)
    /\ LET existing_user == Get(users, user_id)
       IN  IF existing_user.exc # ""
           THEN response' = Unhandled(existing_user.exc) /\ users' = users
           ELSE IF Falsy(existing_user.obj)
           THEN response' = HTTPException(404, "User not found") /\ users' = users
           ELSE LET obj == SetAttrs(existing_user.obj[1], user)
                IN  users' = Save(users, obj) /\ response' = Ok(<<obj>>)
    /\ UNCHANGED <<products, orders, lastId, now, tasks>>

delete_user(user_id) ==
    /\ request' = Req("delete_user", user_id, <<>>)
    /\ LET deleted_count == Cardinality(DOMAIN users \cap {user_id})
       IN  IF deleted_count = 0
           THEN /\ response' = HTTPException(404, "User not found")
                /\ UNCHANGED <<users, orders>>
           ELSE /\ users' = Restrict(users, DOMAIN users \ {user_id})
                /\ orders' = Cascade(orders, "user_id", user_id)
                /\ response' = Ok(<<[message |-> "User deleted successfully"]>>)
    /\ UNCHANGED <<products, lastId, now, tasks>>

list_users ==
    /\ request' = Req("list_users", 0, <<>>)
    /\ response' = Ok(Rows(users, DOMAIN users))
    /\ UNCHANGED <<db, now, tasks>>

(***************************************************************************)
(* Products.                                                               *)
(***************************************************************************)
create_product(product) ==
    /\ lastId.product < MaxId
    /\ lastId.user + lastId.product + lastId.order < MaxRows
    /\ LET id == NextId(lastId.product)
           product_obj == [id |-> id, name |-> product.name,
                           description |-> product.description, price |-> product.price]
       IN  /\ products' = (products @@ (id :> product_obj))
           /\ lastId' = [lastId EXCEPT !.product = id]
           /\ request' = Req("create_product", 0, product)
           /\ response' = Ok(<<product_obj>>)
    /\ UNCHANGED <<users, orders, now, tasks>>

read_product(product_id) ==
    /\ request' = Req("read_product", product_id, <<>>)
    /\ LET product == Get(products, product_id)
       IN  response' = IF product.exc # "" THEN Unhandled(product.exc)
                       ELSE IF Falsy(product.obj) THEN HTTPException(404, "Product not found")
                       ELSE Ok(product.obj)
    /\ UNCHANGED <<db, now, tasks>>

update_product(product_id, product) ==
    /\ request' = Req("update_product", product_id, product)
    /\ LET existing_product == Get(products, product_id)
       IN  IF existing_product.exc # ""
           THEN response' = Unhandled(existing_product.exc) /\ products' = products
           ELSE IF Falsy(existing_product.obj)
           THEN response' = HTTPException(404, "Product not found") /\ products' = products
           ELSE LET obj == SetAttrs(existing_product.obj[1], product)
                IN  products' = Save(products, obj) /\ response' = Ok(<<obj>>)
    /\ UNCHANGED <<users, orders, lastId, now, tasks>>

delete_product(product_id) ==
    /\ request' = Req("delete_product", product_id, <<>>)
    /\ LET deleted_count == Cardinality(DOMAIN products \cap {product_id})
       IN  IF deleted_count = 0
           THEN /\ response' = HTTPException(404, "Product not found")
                /\ UNCHANGED <<products, orders>>
           ELSE /\ products' = Restrict(products, DOMAIN products \ {product_id})
                /\ orders' = Cascade(orders, "product_id", product_id)
                /\ response' = Ok(<<[message |-> "Product deleted successfully"]>>)
    /\ UNCHANGED <<users, lastId, now, tasks>>

list_products ==
    /\ request' = Req("list_products", 0, <<>>)
    /\ response' = Ok(Rows(products, DOMAIN products))
    /\ UNCHANGED <<db, now, tasks>>

(***************************************************************************)
(* Orders.                                                                 *)
(***************************************************************************)
create_order(order) ==
    /\ lastId.order < MaxId
    /\ lastId.user + lastId.product + lastId.order < MaxRows
    /\ request' = Req("create_order", 0, order)
    /\ IF ~ForeignKeysOk(users, products, order)
       THEN /\ response' = Unhandled("IntegrityError")
            /\ UNCHANGED <<orders, lastId>>
       ELSE LET id == NextId(lastId.order)
                order_obj == [id |-> id, user_id |-> order.user_id,
                              product_id |-> order.product_id,
                              order_date |-> AutoNowAdd(<<>>, now),
                              status |-> order.status]
            IN  /\ orders' = (orders @@ (id :> order_obj))
                /\ lastId' = [lastId EXCEPT !.order = id]
                /\ response' = Ok(<<order_obj>>)
    /\ UNCHANGED <<users, products, now, tasks>>

read_order(order_id) ==
    /\ request' = Req("read_order", order_id, <<>>)
    /\ LET order == Get(orders, order_id)
       IN  response' = IF order.exc # "" THEN Unhandled(order.exc)
                       ELSE IF Falsy(order.obj) THEN HTTPException(404, "Order not found")
                       ELSE Ok(order.obj)
    /\ UNCHANGED <<db, now, tasks>>

update_order(order_id, order) ==
    /\ request' = Req("update_order", order_id, order)
    /\ LET existing_order == Get(orders, order_id)
       IN  IF existing_order.exc # ""
           THEN response' = Unhandled(existing_order.exc) /\ orders' = orders
           ELSE IF Falsy(existing_order.obj)
           THEN response' = HTTPException(404, "Order not found") /\ orders' = orders
           ELSE LET set == SetAttrs(existing_order.obj[1], order)
                    obj == [set EXCEPT !.order_date = AutoNowAdd(<<set.order_date>>, now)]
                IN  IF ~ForeignKeysOk(users, products, obj)
                    THEN response' = Unhandled("IntegrityError") /\ orders' = orders
                    ELSE orders' = Save(orders, obj) /\ response' = Ok(<<obj>>)
    /\ UNCHANGED <<users, products, lastId, now, tasks>>

delete_order(order_id) ==
    /\ request' = Req("delete_order", order_id, <<>>)
    /\ LET deleted_count == Cardinality(DOMAIN orders \cap {order_id})
       IN  IF deleted_count = 0
           THEN /\ response' = HTTPException(404, "Order not found")
                /\ orders' = orders
           ELSE /\ orders' = Restrict(orders, DOMAIN orders \ {order_id})
                /\ response' = Ok(<<[message |-> "Order deleted successfully"]>>)
    /\ UNCHANGED <<users, products, lastId, now, tasks>>

list_orders ==
    /\ request' = Req("list_orders", 0, <<>>)
    /\ response' = Ok(Rows(orders, DOMAIN orders))
    /\ UNCHANGED <<db, now, tasks>>

(***************************************************************************)
(* The derived queries.                                                    *)
(***************************************************************************)
list_user_orders(user_id) ==
    /\ request' = Req("list_user_orders", user_id, <<>>)
    /\ LET user == Get(users, user_id)
       IN  response' = IF user.exc # "" THEN Unhandled(user.exc)
                       ELSE IF Falsy(user.obj) THEN HTTPException(404, "User not found")
                       ELSE Ok(Rows(orders, OrdersOf(orders, user.obj[1].id)))
    /\ UNCHANGED <<db, now, tasks>>

total_order_amount(user_id) ==
    /\ request' = Req("total_order_amount", user_id, <<>>)
    /\ LET user == Get(users, user_id)
       IN  response' =
             IF user.exc # "" THEN Unhandled(user.exc)
             ELSE IF Falsy(user.obj) THEN HTTPException(404, "User not found")
             ELSE LET total_amount ==
                        AggregateSum(orders, products, OrdersOf(orders, user.obj[1].id))
                  IN  Ok(<<[total_amount |-> OrZero(total_amount)]>>)
    /\ UNCHANGED <<db, now, tasks>>

list_sorted_products(min_price, max_price, sort_by, desc) ==
    /\ request' = Req("list_sorted_products", 0,
                      [min_price |-> min_price, max_price |-> max_price,
                       sort_by |-> sort_by, desc |-> desc])
    /\ LET query == PriceFilter(products, min_price, max_price)
       IN  IF sort_by = <<>>
           THEN response' = Ok(Rows(products, query))
           ELSE LET o == ResolveOrdering(OrderingString(sort_by, desc))
                IN  IF ~KnownField(o.field)
                    THEN response' = Unhandled("FieldError")
                    ELSE \E s \in Ordered(products, query, o.field[1], o.descending) :
                            response' = Ok([k \in DOMAIN s |-> products[s[k]]])
    /\ UNCHANGED <<db, now, tasks>>

(***************************************************************************)
(* The service, one request at a time.  A run works on one resource (and   *)
(* the rows it references): `resource` is chosen at start-up and bounds    *)
(* the exploration, it is no state of the program.                         *)
(***************************************************************************)
On(rs) == resource \in rs /\ resource' = resource

Next ==
    \/ On({"orders"}) /\ Tick
    \/ On({"users", "orders"}) /\ \E user \in UserCreateInputs : create_user(user)
    \/ On({"users"}) /\ \E user_id \in Ids : read_user(user_id)
    \/ On({"users"}) /\ \E user_id \in Ids, user \in UserPatches : update_user(user_id, user)
    \/ On({"users", "orders"}) /\ \E user_id \in Ids : delete_user(user_id)
    \/ On({"users"}) /\ list_users
    \/ On({"products", "orders"}) /\
         \E product \in ProductCreateInputs : create_product(product)
    \/ On({"products"}) /\ \E product_id \in Ids : read_product(product_id)
    \/ On({"products"}) /\
         \E product_id \in Ids, product \in ProductPatches :
            update_product(product_id, product)
    \/ On({"products", "orders"}) /\ \E product_id \in Ids : delete_product(product_id)
    \/ On({"products"}) /\ list_products
    \/ On({"products"}) /\
         \E min_price \in PriceBounds, max_price \in PriceBounds,
            sort_by \in SortInputs, desc \in BOOLEAN :
              list_sorted_products(min_price, max_price, sort_by, desc)
    \/ On({"orders"}) /\ \E order \in OrderCreateInputs : create_order(order)
    \/ On({"orders"}) /\ \E order_id \in Ids : read_order(order_id)
    \/ On({"orders"}) /\
         \E order_id \in Ids, order \in OrderPatches : update_order(order_id, order)
    \/ On({"orders"}) /\ \E order_id \in Ids : delete_order(order_id)
    \/ On({"orders"}) /\ list_orders
    \/ On({"orders"}) /\ \E user_id \in Ids : list_user_orders(user_id)
    \/ On({"orders"}) /\ \E user_id \in Ids : total_order_amount(user_id)

Spec == Init /\ [][Next]_vars

(***************************************************************************)
(* Concurrent requests.  Each handler is a coroutine: it runs alone from   *)
(* one `await` to the next, and each awaited ORM call is one statement of  *)
(* the store.  create_* and delete_* await once; update_product awaits     *)
(* Product.get and then save; total_order_amount awaits User.get and then  *)
(* the aggregate.  tasks[t] is the coroutine of request t: what it was     *)
(* asked, the object it holds, and its response once it is done.           *)
(***************************************************************************)
Done(t, response_) ==
    [pc |-> "done", op |-> tasks[t].op, id |-> tasks[t].id, data |-> tasks[t].data,
     response |-> response_]

\* update_product up to `await Product.get(id=product_id)` (line 138).
update_product_get(t, product_id, product) ==
    /\ tasks[t].pc = "idle"
    /\ LET existing_product == Get(products, product_id)
           asked == [op |-> "update_product", id |-> product_id, data |-> product]
       IN  tasks' = [tasks EXCEPT ![t] =
              IF existing_product.exc # ""
              THEN asked @@ [pc |-> "done", response |-> Unhandled(existing_product.exc)]
              ELSE IF Falsy(existing_product.obj)
              THEN asked @@ [pc |-> "done",
                             response |-> HTTPException(404, "Product not found")]
              ELSE asked @@ [pc |-> "got", obj |-> existing_product.obj[1]]]
    /\ UNCHANGED <<db, now, request, response>>

\* update_product from the setattr loop to the return (lines 142-145).
update_product_save(t) ==
    /\ tasks[t].pc = "got"
    /\ tasks[t].op = "update_product"
    /\ LET obj == SetAttrs(tasks[t].obj, tasks[t].data)
       IN  /\ products' = Save(products, obj)
           /\ tasks' = [tasks EXCEPT ![t] = Done(t, Ok(<<obj>>))]
    /\ UNCHANGED <<users, orders, lastId, now, request, response>>

\* total_order_amount up to `await User.get(id=user_id)` (line 191).
total_order_amount_get(t, user_id) ==
    /\ tasks[t].pc = "idle"
    /\ LET user == Get(users, user_id)
           asked == [op |-> "total_order_amount", id |-> user_id, data |-> <<>>]
       IN  tasks' = [tasks EXCEPT ![t] =
              IF user.exc # ""
              THEN asked @@ [pc |-> "done", response |-> Unhandled(user.exc)]
              ELSE IF Falsy(user.obj)
              THEN asked @@ [pc |-> "done", response |-> HTTPException(404, "User not found")]
              ELSE asked @@ [pc |-> "got", obj |-> user.obj[1]]]
    /\ UNCHANGED <<db, now, request, response>>

\* total_order_amount from the aggregate to the return (lines 195-196).
total_order_amount_aggregate(t) ==
    /\ tasks[t].pc = "got"
    /\ tasks[t].op = "total_order_amount"
    /\ LET total_amount == AggregateSum(orders, products, OrdersOf(orders, tasks[t].obj.id))
       IN  tasks' = [tasks EXCEPT ![t] =
                       Done(t, Ok(<<[total_amount |-> OrZero(total_amount)]>>))]
    /\ UNCHANGED <<db, now, request, response>>

InitConc ==
    /\ users = <<>>
    /\ products = <<>>
    /\ orders = <<>>
    /\ lastId = [user |-> 0, product |-> 0, order |-> 0]
    /\ now = 0
    /\ request = Req("", 0, <<>>)
    /\ response = Ok(<<>>)
    /\ tasks = [t \in 1..MaxTasks |-> [pc |-> "idle"]]
    /\ resource = "concurrent"

NextConc ==
    \/ On({"concurrent"}) /\ \E user \in UserCreateInputs : create_user(user)
    \/ On({"concurrent"}) /\ \E user_id \in Ids : delete_user(user_id)
    \/ On({"concurrent"}) /\ \E product \in ProductCreateInputs : create_product(product)
    \/ On({"concurrent"}) /\ \E product_id \in Ids : delete_product(product_id)
    \/ On({"concurrent"}) /\ \E order \in OrderCreateInputs : create_order(order)
    \/ On({"concurrent"}) /\
         \E t \in 1..MaxTasks, product_id \in Ids, product \in ProductPatches :
            update_product_get(t, product_id, product)
    \/ On({"concurrent"}) /\ \E t \in 1..MaxTasks : update_product_save(t)
    \/ On({"concurrent"}) /\
         \E t \in 1..MaxTasks, user_id \in Ids : total_order_amount_get(t, user_id)
    \/ On({"concurrent"}) /\ \E t \in 1..MaxTasks : total_order_amount_aggregate(t)

SpecConc == InitConc /\ [][NextConc]_vars

(***************************************************************************)
(* Properties.                                                             *)
(***************************************************************************)
\* What a partial update must leave behind: row `id` of `new` carries the
\* supplied fields of `data`, keeps every other field of `old`, and no other
\* row is touched.
PatchedExactly(old, new, id, data) ==
    /\ DOMAIN new = DOMAIN old
    /\ \A f \in DOMAIN data : new[id][f] = data[f]
    /\ \A f \in (DOMAIN old[id]) \ (DOMAIN data) : new[id][f] = old[id][f]
    /\ \A j \in (DOMAIN old) \ {id} : new[j] = old[j]

\* C1 as stated: Update(id, partial) on an existing User, Product or Order
\* overwrites exactly the supplied fields, keeps the unsupplied fields of
\* that record and leaves every other record of every entity unchanged.
C1_UpdateOverwritesSupplied ==
    [][ /\ \A id \in Ids, data \in UserPatches :
              (update_user(id, data) /\ id \in DOMAIN users) =>
                  /\ PatchedExactly(users, users', id, data)
                  /\ UNCHANGED <<products, orders>>
        /\ \A id \in Ids, data \in ProductPatches :
              (update_product(id, data) /\ id \in DOMAIN products) =>
                  /\ PatchedExactly(products, products', id, data)
                  /\ UNCHANGED <<users, orders>>
        /\ \A id \in Ids, data \in OrderPatches :
              (update_order(id, data) /\ id \in DOMAIN orders) =>
                  /\ PatchedExactly(orders, orders', id, data)
                  /\ UNCHANGED <<users, products>>
      ]_vars

\* The user and the product that order `id` would reference once `data` is
\* applied to it both exist.
C1_ReferencesExist(id, data) ==
    /\ (IF "user_id" \in DOMAIN data THEN data.user_id ELSE orders[id].user_id)
          \in DOMAIN users
    /\ (IF "product_id" \in DOMAIN data THEN data.product_id ELSE orders[id].product_id)
          \in DOMAIN products

\* C1 amended: as stated for User and Product; an Order update is applied
\* that way when the user and product it would reference exist, and is
\* otherwise rejected (500, IntegrityError) with every table unchanged.
C1_UpdateOverwritesSuppliedOrRejects ==
    [][ /\ \A id \in Ids, data \in UserPatches :
              (update_user(id, data) /\ id \in DOMAIN users) =>
                  /\ PatchedExactly(users, users', id, data)
                  /\ response'.status = 200
                  /\ UNCHANGED <<products, orders>>
        /\ \A id \in Ids, data \in ProductPatches :
              (update_product(id, data) /\ id \in DOMAIN products) =>
                  /\ PatchedExactly(products, products', id, data)
                  /\ response'.status = 200
                  /\ UNCHANGED <<users, orders>>
        /\ \A id \in Ids, data \in OrderPatches :
              (update_order(id, data) /\ id \in DOMAIN orders) =>
                  IF C1_ReferencesExist(id, data)
                  THEN /\ PatchedExactly(orders, orders', id, data)
                       /\ response'.status = 200
                       /\ UNCHANGED <<users, products>>
                  ELSE /\ response'.status = 500
                       /\ response'.exc = "IntegrityError"
                       /\ UNCHANGED <<users, products, orders>>
      ]_vars

\* An order was given a new status only, while a second order is stored.
C1_Witness ==
    /\ request.op = "update_order"
    /\ request.data = [status |-> "paid"]
    /\ response.status = 200
    /\ Cardinality(DOMAIN orders) = 2

\* The 404 outcome with the entity's message, the three tables unchanged.
C2_NotFound(msg) ==
    /\ response'.status = 404
    /\ response'.detail = msg
    /\ UNCHANGED <<users, products, orders>>

\* C2 as stated: GetById, Update and Delete of an identifier with no record
\* answer 404 with the entity's message and leave the three tables unchanged.
C2_MissingIdIsNotFound ==
    [][ \A id \in Ids :
          /\ (id \notin DOMAIN users /\ read_user(id)) => C2_NotFound("User not found")
          /\ (id \notin DOMAIN users /\ delete_user(id)) => C2_NotFound("User not found")
          /\ \A data \in UserPatches :
               (id \notin DOMAIN users /\ update_user(id, data))
                  => C2_NotFound("User not found")
          /\ (id \notin DOMAIN products /\ read_product(id))
                  => C2_NotFound("Product not found")
          /\ (id \notin DOMAIN products /\ delete_product(id))
                  => C2_NotFound("Product not found")
          /\ \A data \in ProductPatches :
               (id \notin DOMAIN products /\ update_product(id, data))
                  => C2_NotFound("Product not found")
          /\ (id \notin DOMAIN orders /\ read_order(id)) => C2_NotFound("Order not found")
          /\ (id \notin DOMAIN orders /\ delete_order(id)) => C2_NotFound("Order not found")
          /\ \A data \in OrderPatches :
               (id \notin DOMAIN orders /\ update_order(id, data))
                  => C2_NotFound("Order not found")
      ]_vars

\* C3: every stored order references a user and a product that exist.
C3_OrdersReferenceExistingRows ==
    \A o \in DOMAIN orders :
        /\ orders[o].user_id \in DOMAIN users
        /\ orders[o].product_id \in DOMAIN products

\* An order naming a missing user or product was refused while an order is
\* stored.
C3_Witness ==
    /\ request.op = "create_order"
    /\ response.exc = "IntegrityError"
    /\ orders # <<>>

\* The record GetById returns for `id` agrees with `input` in every field
\* of `input`, and `id` is new to the table.
C4_RoundTrip(old, new, id, input) ==
    /\ id \notin DOMAIN old
    /\ DOMAIN new = DOMAIN old \cup {id}
    /\ \A j \in DOMAIN old : new[j] = old[j]
    /\ Get(new, id).exc = ""
    /\ \A f \in DOMAIN input : Get(new, id).obj[1][f] = input[f]
    /\ Get(new, id).obj[1].id = id

\* C4: a Create that returns a record returns an identifier no other record
\* of the entity has, and GetById of it yields the supplied fields.
C4_CreateThenGet ==
    [][ /\ \A input \in UserCreateInputs :
              (create_user(input) /\ response'.status = 200) =>
                  C4_RoundTrip(users, users', response'.body[1].id, input)
        /\ \A input \in ProductCreateInputs :
              (create_product(input) /\ response'.status = 200) =>
                  C4_RoundTrip(products, products', response'.body[1].id, input)
        /\ \A input \in OrderCreateInputs :
              (create_order(input) /\ response'.status = 200) =>
                  C4_RoundTrip(orders, orders', response'.body[1].id, input)
      ]_vars

\* A second order was created beside one that is still stored.
C4_Witness ==
    /\ request.op = "create_order"
    /\ response.status = 200
    /\ Cardinality(DOMAIN orders) = 2

\* The sum, over the orders S, of the price of each order's product.
RECURSIVE C5_Sum(_)
C5_Sum(S) ==
    IF S = {} THEN 0
    ELSE LET o == CHOOSE x \in S : TRUE
         IN  products[orders[o].product_id].price + C5_Sum(S \ {o})

\* C5 as stated: the total-order-amount query answers 404 for a user that
\* does not exist, and otherwise the sum of the product price of every
\* order of the user (0 when there is none).
C5_TotalIsSumOrNotFound ==
    request.op = "total_order_amount" =>
        IF request.id \notin DOMAIN users
        THEN response.status = 404 /\ response.detail = "User not found"
        ELSE response =
               Ok(<<[total_amount |-> C5_Sum({o \in DOMAIN orders :
                                                orders[o].user_id = request.id})]>>)

\* The products the price bounds of a query select.
C6_Selected(min_price, max_price) ==
    { i \in DOMAIN products :
        /\ (min_price = <<>> \/ products[i].price >= min_price[1])
        /\ (max_price = <<>> \/ products[i].price <= max_price[1]) }

\* C6 as stated: the product query (with no sort field, or one that names a
\* column) returns exactly the stored products within the inclusive price
\* bounds and changes no stored state.  Stated for the queries whose bounds
\* select at least one product.
C6_QueryReturnsExactlyTheSelected ==
    [][ \A min_price \in PriceBounds, max_price \in PriceBounds,
           sort_by \in {<<>>, <<"price">>, <<"name">>}, desc \in BOOLEAN :
          (list_sorted_products(min_price, max_price, sort_by, desc)
              /\ C6_Selected(min_price, max_price) # {}) =>
              /\ response'.status = 200
              /\ Len(response'.body) = Cardinality(C6_Selected(min_price, max_price))
              /\ { response'.body[k] : k \in DOMAIN response'.body }
                    = { products[i] : i \in C6_Selected(min_price, max_price) }
              /\ UNCHANGED <<users, products, orders>>
      ]_vars

\* C7 as stated: with a sort field the query returns the products ordered by
\* it, ascending when desc is false and descending when desc is true.
\* Stated for the queries whose bounds select at least two products.
C7_SortedByFieldAndFlag ==
    (request.op = "list_sorted_products"
        /\ request.data.sort_by \in {<<"price">>, <<"name">>}
        /\ Cardinality(C6_Selected(request.data.min_price, request.data.max_price)) >= 2) =>
        /\ response.status = 200
        /\ Len(response.body) >= 2
        /\ \A k \in 1..(Len(response.body) - 1) :
              LET f == request.data.sort_by[1]
                  a == SortKey(response.body[k], f)
                  b == SortKey(response.body[k + 1], f)
              IN  IF request.data.desc THEN a >= b ELSE a <= b

\* C8 as stated: list-user-orders answers 404 for a user that does not
\* exist, and otherwise exactly the orders of that user.
C8_UserOrdersOrNotFound ==
    request.op = "list_user_orders" =>
        IF request.id \notin DOMAIN users
        THEN response.status = 404 /\ response.detail = "User not found"
        ELSE /\ response.status = 200
             /\ { response.body[k] : k \in DOMAIN response.body }
                   = { orders[o] : o \in {x \in DOMAIN orders :
                                            orders[x].user_id = request.id} }

\* C9: an order is stamped with the time of its creation, and no step
\* changes the order_date of an order that stays stored.
C9_OrderDateSetOnce ==
    [][ /\ \A o \in (DOMAIN orders') \ (DOMAIN orders) : orders'[o].order_date = now
        /\ \A o \in (DOMAIN orders') \cap (DOMAIN orders) :
              orders'[o].order_date = orders[o].order_date
      ]_vars

\* An order was updated after the clock had moved on from its creation.
C9_Witness ==
    /\ request.op = "update_order"
    /\ response.status = 200
    /\ request.id \in DOMAIN orders
    /\ orders[request.id].order_date < now

\* C10 as stated, for two partial updates of one product that supply
\* disjoint fields: when the second of them is saved, the stored record
\* carries the fields of both, whatever the interleaving.
C10_ConcurrentUpdatesBothApplied ==
    [][ \A t, u \in 1..MaxTasks :
          ( /\ t # u
            /\ update_product_save(t)
            /\ tasks[u].pc = "done"
            /\ tasks[u].op = "update_product"
            /\ tasks[u].response.status = 200
            /\ tasks[u].id = tasks[t].id
            /\ (DOMAIN tasks[u].data) \cap (DOMAIN tasks[t].data) = {}
            /\ tasks[t].id \in DOMAIN products ) =>
              /\ \A f \in DOMAIN tasks[t].data :
                    products'[tasks[t].id][f] = tasks[t].data[f]
              /\ \A f \in DOMAIN tasks[u].data :
                    products'[tasks[t].id][f] = tasks[u].data[f]
      ]_vars

(***************************************************************************)
(* What the handlers do where the claims above fail.                       *)
(***************************************************************************)
\* Delete of an identifier with no record answers 404 with the entity's
\* message and changes nothing; GetById and Update of one answer 500.
MissingIdAnswers ==
    [][ \A id \in Ids :
          /\ (id \notin DOMAIN users /\ delete_user(id)) => C2_NotFound("User not found")
          /\ (id \notin DOMAIN products /\ delete_product(id))
                  => C2_NotFound("Product not found")
          /\ (id \notin DOMAIN orders /\ delete_order(id)) => C2_NotFound("Order not found")
          /\ ( \/ id \notin DOMAIN users /\ read_user(id)
               \/ id \notin DOMAIN products /\ read_product(id)
               \/ id \notin DOMAIN orders /\ read_order(id)
               \/ id \notin DOMAIN users /\ list_user_orders(id)
               \/ id \notin DOMAIN users /\ total_order_amount(id) ) =>
                  /\ response'.status = 500
                  /\ response'.exc = "DoesNotExist"
                  /\ UNCHANGED <<users, products, orders>>
      ]_vars

\* Whenever the product query answers 200 its body is exactly the products
\* within the inclusive bounds, in the order asked for; it answers 200
\* unless order_by is handed a string that is no field name, which is the
\* case for every request with a sort field and desc=true.
ProductQueryWhenAnswered ==
    request.op = "list_sorted_products" =>
        LET q == request.data
            o == ResolveOrdering(OrderingString(q.sort_by, q.desc))
        IN  /\ response.status \in {200, 500}
            /\ response.status = 500 <=> (q.sort_by # <<>> /\ ~KnownField(o.field))
            /\ (q.sort_by # <<>> /\ q.desc) => response.status = 500
            /\ response.status = 200 =>
                 /\ Len(response.body) = Cardinality(C6_Selected(q.min_price, q.max_price))
                 /\ { response.body[k] : k \in DOMAIN response.body }
                       = { products[i] : i \in C6_Selected(q.min_price, q.max_price) }
                 /\ q.sort_by # <<>> =>
                      \A k \in 1..(Len(response.body) - 1) :
                         IF o.descending
                         THEN SortKey(response.body[k], o.field[1])
                                 >= SortKey(response.body[k + 1], o.field[1])
                         ELSE SortKey(response.body[k], o.field[1])
                                 <= SortKey(response.body[k + 1], o.field[1])

\* For a user that exists the two user queries answer 200 with the orders
\* of the user and with the sum of their products' prices.
UserQueriesWhenUserExists ==
    /\ (request.op = "list_user_orders" /\ request.id \in DOMAIN users) =>
          /\ response.status = 200
          /\ { response.body[k] : k \in DOMAIN response.body }
                = { orders[o] : o \in {x \in DOMAIN orders : orders[x].user_id = request.id} }
    /\ (request.op = "total_order_amount" /\ request.id \in DOMAIN users) =>
          response = Ok(<<[total_amount |-> C5_Sum({o \in DOMAIN orders :
                                                      orders[o].user_id = request.id})]>>)

\* An update whose row was deleted after it was read answers 200 with the
\* record it read and stores nothing; an aggregate whose user was deleted
\* after it was read answers 200 with total 0.
StaleReadAnswers ==
    [][ \A t \in 1..MaxTasks :
          /\ (update_product_save(t) /\ tasks[t].id \notin DOMAIN products) =>
                /\ tasks'[t].response.status = 200
                /\ products' = products
          /\ (total_order_amount_aggregate(t) /\ tasks[t].id \notin DOMAIN users) =>
                tasks'[t].response = Ok(<<[total_amount |-> 0]>>)
      ]_vars

====
